---- MODULE Spec2Model ----
(***************************************************************************)
(* A model of the project materialization core: Project::output and        *)
(* Project::export (src/src/project.rs), the ActOn target iterator         *)
(* (src/src/args/act_on.rs) and HookManager::invoke (src/src/hook.rs).     *)
(*                                                                         *)
(* The file system is a set of directories plus a map from file paths to   *)
(* file contents.  A path is a sequence of components relative to the      *)
(* project root, which is the empty path.                                  *)
(***************************************************************************)
EXTENDS FiniteSets, Integers, Sequences, TLC

VARIABLES
    pods,          \* Project.pods: the pods in declaration (glob) order
    default_tags,  \* Project.default_tags is Some(..)
    dirs,          \* the directories that exist on disk
    files,         \* the files that exist on disk, with their contents
    last,          \* what the last call was, and how it ended
    exported,      \* the destinations an export call has succeeded on
    act_on,        \* the ActOn value being iterated
    iter,          \* the PodsOrServices iterator: its State and position
    yielded,       \* the items next() has returned so far
    ended,         \* next() has returned None
    hook_dir,      \* the directory <hooks_dir>/<hook_name>.d on disk
    hook,          \* the invocation of HookManager::invoke in progress
    hook_log,      \* the commands of that invocation: started, finished
    plugins,       \* Project.plugins
    context,       \* the dc::Context human_alias was last called on
    alias,         \* what that call returned
    run            \* the invocation of main's run in progress

vars == <<pods, default_tags, dirs, files, last, exported,
          act_on, iter, yielded, ended, hook_dir, hook, hook_log,
          plugins, context, alias, run>>

projectVars == <<pods, default_tags, dirs, files, last, exported, plugins>>
actOnVars == <<act_on, iter, yielded, ended>>
hookVars == <<hook_dir, hook, hook_log>>
aliasVars == <<context, alias>>
runVars == <<run>>

-----------------------------------------------------------------------------
(* Bounds and the finite universes the inputs are drawn from.              *)

MaxPods == 2

\* The longest list of names given to ActOn::Named.
MaxNames == 2

\* The most entries the hook directory holds.
MaxEntries == 3

\* Pod names, in the order glob("*.yml") returns them (alphabetical).
PodNames == <<"db", "frontend", "migrate">>

OverrideNames == {"development", "production"}

\* The destinations export is called with.
ExportDirs == {<<".conductor", "hello_export">>}

\* The steps of one iteration of output_helper's loop, each of which can fail.
Steps == {"parent", "merge", "standalone", "transform", "write"}

NoFail == [pod |-> 0, step |-> "none"]

None == [tag |-> "None"]
Some(x) == [tag |-> "Some", value |-> x]
Ok(x) == [tag |-> "Ok", value |-> x]

-----------------------------------------------------------------------------
(* Paths.                                                                  *)

root_dir == <<>>
src_dir == <<"src">>
output_dir == <<".conductor">>
output_pods_dir == output_dir \o <<"pods">>

\* The local clone of the one source repository of the project.
RepoAlias == "dockercloud-hello-world"
RepoUrl == "https://github.com/docker/dockercloud-hello-world.git"
repo_path == src_dir \o <<RepoAlias>>

IsPrefix(p, q) == Len(p) <= Len(q) /\ SubSeq(q, 1, Len(p)) = p

\* Every proper ancestor of a path, the root included.
Ancestors(p) == {SubSeq(p, 1, k) : k \in 0..(Len(p) - 1)}

Exists(p, d, f) == p \in d \/ p \in DOMAIN f

\* mkdir -p of the parent of path.
with_guaranteed_parent(path, d) == d \cup Ancestors(path)

\* fs::remove_dir_all: the directory and everything below it.
remove_dirs(p, d) == {q \in d : ~IsPrefix(p, q)}
remove_files(p, f) == [q \in {r \in DOMAIN f : ~IsPrefix(p, r)} |-> f[q]]

Under(p, f) == {q \in DOMAIN f : IsPrefix(p, q)}

-----------------------------------------------------------------------------
(* Pods and the documents made of them.                                    *)

PodTypes == {"Service", "Task"}

\* The pods one of whose services builds from the source repository, and
\* the pods that are tasks, as in the example projects.
RepoPods == {"frontend"}
TaskPods == {"migrate"}

\* A pod: its name, its type and whether one of its services builds from
\* the source repository.
PodRecords == {p \in [name : {PodNames[i] : i \in 1..Len(PodNames)},
                      pod_type : PodTypes, repo : BOOLEAN] :
                 /\ p.repo = (p.name \in RepoPods)
                 /\ (p.pod_type = "Task") = (p.name \in TaskPods)}

NameIndex(n) == CHOOSE i \in 1..Len(PodNames) : PodNames[i] = n

\* The pod lists find_pods can produce: distinct names in glob order.
PodLists ==
    {ps \in UNION {[1..n -> PodRecords] : n \in 0..MaxPods} :
        \A i, j \in 1..Len(ps) :
            i < j => NameIndex(ps[i].name) < NameIndex(ps[j].name)}

file_name(pod) == pod.name \o ".yml"

\* rel_path without the (Export, Task) arm of the match.
rel_path_flat(op, pod) == <<file_name(pod)>>

\* Where output_helper puts a pod, relative to the destination directory.
rel_path(op, pod) ==
    IF op = "Export" /\ pod.pod_type = "Task"
    THEN <<"tasks", file_name(pod)>>
    ELSE <<file_name(pod)>>

\* Pod::merged_file: the base definition with the override's layer on top.
merged_file(pod, ovr) == [pod |-> pod.name, ovr |-> ovr]

\* A repository is mounted when its local clone exists.
is_mounted(d) == repo_path \in d

\* plugins::Manager::transform: the build context and volume of a service
\* that builds from the repository, and the default image tags.
transform(op, pod, file, tags, mounted) ==
    [pod |-> file.pod,
     ovr |-> file.ovr,
     context |-> IF ~pod.repo THEN [image_only |-> TRUE]
                 ELSE IF op = "Output" /\ mounted THEN [Dir |-> repo_path]
                 ELSE [GitUrl |-> RepoUrl],
     volumes |-> IF pod.repo /\ op = "Output" /\ mounted
                 THEN {repo_path} ELSE {},
     image |-> IF tags THEN "default_tag" ELSE "as_written"]

\* The document output_helper writes for a pod.
Document(op, pod, ovr, tags, mounted) ==
    transform(op, pod, merged_file(pod, ovr), tags, mounted)

\* File::write_to_path: create or replace the file.
write_to_path(f, path, doc) ==
    [q \in DOMAIN f \cup {path} |-> IF q = path THEN doc ELSE f[q]]

-----------------------------------------------------------------------------
(* Project::output_helper.  st is the disk and the log of the call so far; *)
(* fail names the pod and step at which an error is returned, if any.      *)

\* output_helper writing the file of a pod before the steps that can fail.
RECURSIVE helper_loop_write_first(_, _, _, _, _, _, _, _)
helper_loop_write_first(i, ps, ovr, op, export_dir, tags, fail, st) ==
    IF i > Len(ps) THEN [st EXCEPT !.result = "Ok"]
    ELSE
        LET pod == ps[i]
            out_path == export_dir \o rel_path(op, pod)
        IN  IF fail.pod = i /\ fail.step = "parent"
            THEN [st EXCEPT !.result = "Err"]
            ELSE
                LET d1 == with_guaranteed_parent(out_path, st.dirs)
                    doc == Document(op, pod, ovr, tags, is_mounted(d1))
                    st1 == [st EXCEPT
                               !.dirs = d1,
                               !.files = write_to_path(st.files, out_path, doc)]
                IN  IF fail.pod = i
                    THEN [st1 EXCEPT !.result = "Err"]
                    ELSE helper_loop_write_first(
                             i + 1, ps, ovr, op, export_dir, tags, fail,
                             [st1 EXCEPT !.written = Append(st.written, out_path)])

RECURSIVE helper_loop(_, _, _, _, _, _, _, _)
helper_loop(i, ps, ovr, op, export_dir, tags, fail, st) ==
    IF i > Len(ps) THEN [st EXCEPT !.result = "Ok"]
    ELSE
        LET pod == ps[i]
            out_path == export_dir \o rel_path(op, pod)
        IN  IF fail.pod = i /\ fail.step = "parent"
            THEN [st EXCEPT !.result = "Err"]
            ELSE
                LET d1 == with_guaranteed_parent(out_path, st.dirs)
                IN  IF fail.pod = i
                    THEN [st EXCEPT !.dirs = d1, !.result = "Err"]
                    ELSE
                        LET doc == Document(op, pod, ovr, tags, is_mounted(d1))
                        IN  helper_loop(i + 1, ps, ovr, op, export_dir, tags, fail,
                                [st EXCEPT
                                    !.dirs = d1,
                                    !.files = write_to_path(st.files, out_path, doc),
                                    !.written = Append(st.written, out_path)])

\* output_helper with the errors of a pod's steps swallowed: the failing pod
\* is skipped and the loop goes on.
RECURSIVE helper_loop_swallow(_, _, _, _, _, _, _, _)
helper_loop_swallow(i, ps, ovr, op, export_dir, tags, fail, st) ==
    IF i > Len(ps) THEN st
    ELSE
        LET pod == ps[i]
            out_path == export_dir \o rel_path(op, pod)
            d1 == with_guaranteed_parent(out_path, st.dirs)
            doc == Document(op, pod, ovr, tags, is_mounted(d1))
        IN  IF fail.pod = i
            THEN helper_loop_swallow(i + 1, ps, ovr, op, export_dir, tags, fail,
                    [st EXCEPT !.dirs = d1, !.result = "Err"])
            ELSE helper_loop_swallow(i + 1, ps, ovr, op, export_dir, tags, fail,
                    [st EXCEPT
                        !.dirs = d1,
                        !.files = write_to_path(st.files, out_path, doc),
                        !.written = Append(st.written, out_path)])

output_helper_swallow(ps, ovr, op, export_dir, tags, fail, d, f) ==
    helper_loop_swallow(1, ps, ovr, op, export_dir, tags, fail,
                [dirs |-> d, files |-> f, written |-> <<>>, result |-> "Ok"])

output_helper(ps, ovr, op, export_dir, tags, fail, d, f) ==
    helper_loop(1, ps, ovr, op, export_dir, tags, fail,
                [dirs |-> d, files |-> f, written |-> <<>>, result |-> "Ok"])

\* output without the deletion of the existing pods directory.
output_no_remove(ps, ovr, tags, fail, rm_fails, d, f) ==
    output_helper(ps, ovr, "Output", output_pods_dir, tags, fail, d, f)

\* output with the call of output_helper in the else branch of the
\* existence test.
output_else(ps, ovr, tags, fail, rm_fails, d, f) ==
    IF Exists(output_pods_dir, d, f)
    THEN IF rm_fails
         THEN [dirs |-> d, files |-> f, written |-> <<>>, result |-> "CannotDelete"]
         ELSE [dirs |-> remove_dirs(output_pods_dir, d),
               files |-> remove_files(output_pods_dir, f),
               written |-> <<>>, result |-> "Ok"]
    ELSE output_helper(ps, ovr, "Output", output_pods_dir, tags, fail, d, f)

\* output handing Operation::Export to output_helper.
output_as_export(ps, ovr, tags, fail, rm_fails, d, f) ==
    IF Exists(output_pods_dir, d, f)
    THEN IF rm_fails
         THEN [dirs |-> d, files |-> f, written |-> <<>>, result |-> "CannotDelete"]
         ELSE output_helper(ps, ovr, "Export", output_pods_dir, tags, fail,
                            remove_dirs(output_pods_dir, d),
                            remove_files(output_pods_dir, f))
    ELSE output_helper(ps, ovr, "Export", output_pods_dir, tags, fail, d, f)

\* output deleting the whole output directory.
output_remove_root(ps, ovr, tags, fail, rm_fails, d, f) ==
    IF Exists(output_pods_dir, d, f)
    THEN IF rm_fails
         THEN [dirs |-> d, files |-> f, written |-> <<>>, result |-> "CannotDelete"]
         ELSE output_helper(ps, ovr, "Output", output_pods_dir, tags, fail,
                            remove_dirs(output_dir, d),
                            remove_files(output_dir, f))
    ELSE output_helper(ps, ovr, "Output", output_pods_dir, tags, fail, d, f)

\* Project::output: delete the pods directory if it exists, then write it.
\* rm_fails: fs::remove_dir_all returns an error.
output(ps, ovr, tags, fail, rm_fails, d, f) ==
    IF Exists(output_pods_dir, d, f)
    THEN IF rm_fails
         THEN [dirs |-> d, files |-> f, written |-> <<>>, result |-> "CannotDelete"]
         ELSE output_helper(ps, ovr, "Output", output_pods_dir, tags, fail,
                            remove_dirs(output_pods_dir, d),
                            remove_files(output_pods_dir, f))
    ELSE output_helper(ps, ovr, "Output", output_pods_dir, tags, fail, d, f)

\* export without the test for an existing destination.
export_clobber(ps, ovr, export_dir, tags, fail, d, f) ==
    output_helper(ps, ovr, "Export", export_dir, tags, fail, d, f)

\* export testing the output pods directory instead of the destination.
export_wrong_check(ps, ovr, export_dir, tags, fail, d, f) ==
    IF Exists(output_pods_dir, d, f)
    THEN [dirs |-> d, files |-> f, written |-> <<>>, result |-> "DestinationExists"]
    ELSE output_helper(ps, ovr, "Export", export_dir, tags, fail, d, f)

\* export demanding default tags: without them it returns an error.
export_requires_tags(ps, ovr, export_dir, tags, fail, d, f) ==
    IF Exists(export_dir, d, f)
    THEN [dirs |-> d, files |-> f, written |-> <<>>, result |-> "DestinationExists"]
    ELSE IF ~tags
    THEN [dirs |-> d, files |-> f, written |-> <<>>, result |-> "Err"]
    ELSE output_helper(ps, ovr, "Export", export_dir, tags, fail, d, f)

\* Project::export: refuse an existing destination, else write into it.
export(ps, ovr, export_dir, tags, fail, d, f) ==
    IF Exists(export_dir, d, f)
    THEN [dirs |-> d, files |-> f, written |-> <<>>, result |-> "DestinationExists"]
    ELSE output_helper(ps, ovr, "Export", export_dir, tags, fail, d, f)

-----------------------------------------------------------------------------
(* The calls on a Project.                                                 *)

Fails(ps) == {NoFail} \cup [pod : 1..Len(ps), step : Steps]

\* The record of a call: its arguments, whether its destination existed when
\* it was made, the pod it failed at (0: none), its result, the paths it wrote
\* in order, and whether it repeats a successful output of the same override.
Call(op, ovr, dir, existed, fail, r) ==
    [op |-> op, ovr |-> ovr, dir |-> dir, existed |-> existed,
     fail |-> fail, result |-> r.result, written |-> r.written,
     repeat |-> /\ op = "output"
                /\ last.op = "output"
                /\ last.result = "Ok"
                /\ last.ovr = ovr,
     warned |-> FALSE]

NoResult == [result |-> "Ok", written |-> <<>>]

\* The warn! of export: reached when the destination does not exist, and
\* made when default_tags() is None.
export_warns(tags, existed) == ~existed /\ ~tags

\* Project::plugins: expect on the plugins field panics when it is None.
plugins_panics(pl) == pl = None

\* Where a call stops: when plugins() panics, the first pod to reach its
\* transform step unwinds the call there.
StopAt(pl, ps, fail) ==
    IF ~plugins_panics(pl) \/ ps = <<>> THEN fail
    ELSE IF fail.pod = 1 /\ fail.step \in {"parent", "merge", "standalone"}
    THEN fail
    ELSE [pod |-> 1, step |-> "transform"]

\* The outcome of a call that stops at a panic of plugins().
Unwound(pl, ps, fail, r) ==
    IF StopAt(pl, ps, fail) = fail THEN r ELSE [r EXCEPT !.result = "panic"]

Output(ovr, fail, rm_fails) ==
    LET existed == Exists(output_pods_dir, dirs, files)
        r == Unwound(plugins, pods, fail,
                     output(pods, ovr, default_tags,
                            StopAt(plugins, pods, fail), rm_fails, dirs, files))
    IN  /\ rm_fails => existed /\ fail = NoFail
        /\ dirs' = r.dirs
        /\ files' = r.files
        /\ last' = Call("output", ovr, output_pods_dir, existed,
                        IF r.result = "Err" THEN fail.pod ELSE 0, r)
        /\ UNCHANGED <<pods, default_tags, exported, plugins, actOnVars, hookVars,
                     aliasVars, runVars>>

Export(ovr, export_dir, fail) ==
    LET existed == Exists(export_dir, dirs, files)
        r == Unwound(plugins, pods, fail,
                     export(pods, ovr, export_dir, default_tags,
                            StopAt(plugins, pods, fail), dirs, files))
    IN  /\ existed => fail = NoFail
        /\ dirs' = r.dirs
        /\ files' = r.files
        /\ last' = [Call("export", ovr, export_dir, existed,
                         IF r.result = "Err" THEN fail.pod ELSE 0, r)
                        EXCEPT !.warned = export_warns(default_tags, existed)]
        /\ exported' = IF r.result = "Ok" THEN exported \cup {export_dir}
                       ELSE exported
        /\ UNCHANGED <<pods, default_tags, plugins, actOnVars, hookVars,
                     aliasVars, runVars>>

\* Project::set_default_tags
SetDefaultTags ==
    /\ default_tags' = TRUE
    /\ last' = Call("set_default_tags", "none", <<>>, FALSE, 0, NoResult)
    /\ UNCHANGED <<pods, dirs, files, exported, plugins, actOnVars, hookVars,
                     aliasVars, runVars>>

\* Repo::fake_clone_source: create the local clone of the repository.
FakeCloneSource ==
    /\ dirs' = dirs \cup {repo_path} \cup Ancestors(repo_path)
    /\ last' = Call("fake_clone_source", "none", <<>>, repo_path \in dirs,
                    0, NoResult)
    /\ UNCHANGED <<pods, default_tags, files, exported, plugins, actOnVars, hookVars,
                     aliasVars, runVars>>

OutputCall == \E ovr \in OverrideNames, rm_fails \in BOOLEAN :
                 \E fail \in Fails(pods) : Output(ovr, fail, rm_fails)

ExportCall == \E ovr \in OverrideNames, export_dir \in ExportDirs :
                 \E fail \in Fails(pods) : Export(ovr, export_dir, fail)

-----------------------------------------------------------------------------
(* HookManager::invoke.  The scripts of one event directory all have the   *)
(* path <hooks_dir>/<hook_name>.d/<name>, so their paths are ordered as    *)
(* their names are; a name is the sequence of its characters.              *)

A_HOOK == <<"a", ".", "h", "o", "o", "k">>
AB_HOOK == <<"a", "b", ".", "h", "o", "o", "k">>
B_HOOK == <<"b", ".", "h", "o", "o", "k">>
HIDDEN_HOOK == <<".", "h", "i", "d", "d", "e", "n", ".", "h", "o", "o", "k">>
C_TXT == <<"c", ".", "t", "x", "t">>

EntryNames == {A_HOOK, AB_HOOK, B_HOOK, HIDDEN_HOOK, C_TXT}

\* The byte of a character.
Ord == [c \in {".", "a", "b", "c", "d", "e", "h", "i", "k", "n", "o", "t", "x"} |->
          CASE c = "." -> 46  [] c = "a" -> 97  [] c = "b" -> 98
            [] c = "c" -> 99  [] c = "d" -> 100 [] c = "e" -> 101
            [] c = "h" -> 104 [] c = "i" -> 105 [] c = "k" -> 107
            [] c = "n" -> 110 [] c = "o" -> 111 [] c = "t" -> 116
            [] c = "x" -> 120]

\* The order of PathBuf on two names in one directory: byte by byte, a
\* proper prefix first.
RECURSIVE PathLess(_, _)
PathLess(a, b) ==
    IF b = <<>> THEN FALSE
    ELSE IF a = <<>> THEN TRUE
    ELSE IF Ord[Head(a)] # Ord[Head(b)] THEN Ord[Head(a)] < Ord[Head(b)]
    ELSE PathLess(Tail(a), Tail(b))

starts_with(name, c) == Len(name) >= 1 /\ name[1] = c

ends_with(name, suffix) ==
    /\ Len(name) >= Len(suffix)
    /\ SubSeq(name, Len(name) - Len(suffix) + 1, Len(name)) = suffix

DOT_HOOK == <<".", "h", "o", "o", "k">>

\* is_hook without the test for a leading '.'.
is_hook_hidden(entry) ==
    /\ entry.is_file
    /\ ends_with(entry.name, DOT_HOOK)

\* The test an entry passes to be pushed on scripts.
is_hook(entry) ==
    /\ entry.is_file
    /\ ~starts_with(entry.name, ".")
    /\ ends_with(entry.name, DOT_HOOK)

\* The for loop over fs::read_dir: the names of the hooks, in listing order.
RECURSIVE find_scripts(_)
find_scripts(listing) ==
    IF listing = <<>> THEN <<>>
    ELSE IF is_hook(Head(listing))
         THEN <<Head(listing).name>> \o find_scripts(Tail(listing))
         ELSE find_scripts(Tail(listing))

\* Vec::sort on paths.
RECURSIVE insert_sorted(_, _)
insert_sorted(x, sorted) ==
    IF sorted = <<>> THEN <<x>>
    ELSE IF PathLess(Head(sorted), x)
         THEN <<Head(sorted)>> \o insert_sorted(x, Tail(sorted))
         ELSE <<x>> \o sorted

\* scripts.sort() left out.
sort_none(scripts) == scripts

RECURSIVE sort(_)
sort(scripts) ==
    IF scripts = <<>> THEN <<>>
    ELSE insert_sorted(Head(scripts), sort(Tail(scripts)))

\* The entries a hook directory can hold: distinct names, files or
\* subdirectories.
Entries == [name : EntryNames, is_file : BOOLEAN]

HookDirs ==
    {[exists |-> FALSE, entries |-> {}]} \cup
    {[exists |-> TRUE, entries |-> es] :
        es \in {es \in SUBSET Entries :
                   /\ Cardinality(es) <= MaxEntries
                   /\ \A e1, e2 \in es : e1.name = e2.name => e1 = e2}}

\* The orders fs::read_dir can return the entries in.
Listings(es) ==
    {l \in [1..Cardinality(es) -> es] :
        \A i, j \in 1..Cardinality(es) : i # j => l[i] # l[j]}

\* The environments a caller passes.
Envs == {<< >>, [OVERRIDE |-> "development"],
         [OVERRIDE |-> "production", POD |-> "frontend"]}

NoError == [kind |-> "none"]

HookIdle == [pc |-> "idle", listing |-> <<>>, scripts |-> <<>>, idx |-> 0,
             env |-> << >>, result |-> "none", error |-> NoError]


\* invoke without the early return for a missing directory: read_dir is
\* called on it and fails.
invoke_no_bail(dir, listing, env, read_fails) ==
    IF ~dir.exists \/ read_fails
    THEN [HookIdle EXCEPT !.pc = "done", !.env = env, !.result = "Err",
                          !.error = [kind |-> "CouldNotReadDirectory"]]
    ELSE LET scripts == sort(find_scripts(listing))
         IN  [pc |-> IF scripts = <<>> THEN "done" ELSE "build",
              listing |-> listing, scripts |-> scripts, idx |-> 1,
              env |-> env,
              result |-> IF scripts = <<>> THEN "Ok" ELSE "none",
              error |-> NoError]

\* invoke up to the loop that runs the scripts.  listing: the order read_dir
\* returns the entries in; read_fails: reading the directory or an entry
\* returns an error.
invoke(dir, listing, env, read_fails) ==
    IF ~dir.exists
    THEN [HookIdle EXCEPT !.pc = "done", !.env = env, !.result = "Ok"]
    ELSE IF read_fails
    THEN [HookIdle EXCEPT !.pc = "done", !.env = env, !.result = "Err",
                          !.error = [kind |-> "CouldNotReadDirectory"]]
    ELSE LET scripts == sort(find_scripts(listing))
         IN  [pc |-> IF scripts = <<>> THEN "done" ELSE "build",
              listing |-> listing, scripts |-> scripts, idx |-> 1,
              env |-> env,
              result |-> IF scripts = <<>> THEN "Ok" ELSE "none",
              error |-> NoError]

\* A caller invokes the hooks of the event.
Invoke(listing, env, read_fails) ==
    /\ hook.pc \in {"idle", "done"}
    /\ read_fails => hook_dir.exists
    /\ hook' = invoke(hook_dir, listing, env, read_fails)
    /\ hook_log' = <<>>
    /\ UNCHANGED <<hook_dir, projectVars, actOnVars, aliasVars, runVars>>

\* Command::env: set one variable of the command's environment.
cmd_env(cmd, name, val) ==
    [k \in DOMAIN cmd \cup {name} |-> IF k = name THEN val ELSE cmd[k]]

\* The loop over env leaving after its first entry.
set_envs_first(cmd, names, env) ==
    IF names = {} THEN cmd
    ELSE LET name == CHOOSE n \in names : TRUE
         IN  cmd_env(cmd, name, env[name])

\* The loop over env: cmd.env(name, val) for every entry.
RECURSIVE set_envs(_, _, _)
set_envs(cmd, names, env) ==
    IF names = {} THEN cmd
    ELSE LET name == CHOOSE n \in names : TRUE
         IN  set_envs(cmd_env(cmd, name, env[name]), names \ {name}, env)

\* runner.build(&script), cmd.env(..) for every entry of env, and the
\* start of cmd.exec().
ExecStart ==
    /\ hook.pc = "build"
    /\ hook' = [hook EXCEPT !.pc = "exec"]
    /\ hook_log' = Append(hook_log,
                          [script |-> hook.scripts[hook.idx], event |-> "start",
                           env |-> set_envs(<< >>, DOMAIN hook.env, hook.env)])
    /\ UNCHANGED <<hook_dir, projectVars, actOnVars, aliasVars, runVars>>

\* try!(cmd.exec()) with the error dropped: the loop goes on.
after_exec_ignore(h, ok) ==
    IF h.idx = Len(h.scripts)
    THEN [h EXCEPT !.pc = "done", !.result = "Ok"]
    ELSE [h EXCEPT !.pc = "build", !.idx = h.idx + 1]

\* try!(cmd.exec()) and the end of the loop body: the error of the script
\* is returned, else the next script is taken, else Ok(()) is returned.
after_exec(h, ok) ==
    IF ~ok
    THEN [h EXCEPT !.pc = "done", !.result = "Err",
                   !.error = [kind |-> "command", script |-> h.scripts[h.idx]]]
    ELSE IF h.idx = Len(h.scripts)
    THEN [h EXCEPT !.pc = "done", !.result = "Ok"]
    ELSE [h EXCEPT !.pc = "build", !.idx = h.idx + 1]

\* The end of cmd.exec(): try! returns its error, else the loop goes on.
ExecFinish(ok) ==
    /\ hook.pc = "exec"
    /\ hook_log' = Append(hook_log,
                          [script |-> hook.scripts[hook.idx],
                           event |-> IF ok THEN "ok" ELSE "failed",
                           env |-> hook_log[Len(hook_log)].env])
    /\ hook' = after_exec(hook, ok)
    /\ UNCHANGED <<hook_dir, projectVars, actOnVars, aliasVars, runVars>>

InvokeCall ==
    \E listing \in Listings(hook_dir.entries), env \in Envs,
       read_fails \in BOOLEAN : Invoke(listing, env, read_fails)

ExecFinishes == \E ok \in BOOLEAN : ExecFinish(ok)

-----------------------------------------------------------------------------
(* ActOn::pods_or_services and the PodsOrServices iterator.                *)

\* The services of a pod (only the frontend pod's web service is named in
\* the calls modelled here).
ServicesOf(pod) == IF pod.name = "frontend" THEN {"web"} ELSE {}

\* The names a command is given.
Names == {"db", "frontend", "migrate", "web", "missing"}

ActOnAll == [kind |-> "All", names |-> <<>>]
ActOnNamed(ns) == [kind |-> "Named", names |-> ns]

ActOns == {ActOnAll} \cup
          {ActOnNamed(ns) : ns \in UNION {[1..n -> Names] : n \in 0..MaxNames}}

Err(name) == [tag |-> "Err", name |-> name]

\* Project::pod: the first pod of that name, if any (0: none).
project_pod(ps, name) ==
    IF \E i \in 1..Len(ps) : ps[i].name = name
    THEN CHOOSE i \in 1..Len(ps) :
            /\ ps[i].name = name
            /\ \A j \in 1..(i - 1) : ps[j].name # name
    ELSE 0

\* Project::pod_or_service_or_err: the pod of that name, else the service
\* of that name, else an error that carries the name.
pod_or_service_or_err(ps, name) ==
    IF project_pod(ps, name) # 0
    THEN Ok([tag |-> "Pod", pod |-> ps[project_pod(ps, name)]])
    ELSE IF \E i \in 1..Len(ps) : name \in ServicesOf(ps[i])
         THEN LET i == CHOOSE i \in 1..Len(ps) : name \in ServicesOf(ps[i])
              IN  Ok([tag |-> "Service", pod |-> ps[i], service |-> name])
         ELSE Err(name)

\* ActOn::pods_or_services: a fresh iterator, at the start.
pods_or_services(ao) ==
    [state |-> IF ao.kind = "All" THEN "PodIter" ELSE "NameIter", pos |-> 0]

\* next with the pod iterator running backwards.
next_reversed(it, ao, ps) ==
    IF it.state = "PodIter"
    THEN IF it.pos < Len(ps)
         THEN [iter |-> [it EXCEPT !.pos = it.pos + 1],
               item |-> Some(Ok([tag |-> "Pod", pod |-> ps[Len(ps) - it.pos]]))]
         ELSE [iter |-> it, item |-> None]
    ELSE IF it.pos < Len(ao.names)
         THEN [iter |-> [it EXCEPT !.pos = it.pos + 1],
               item |-> Some(pod_or_service_or_err(ps, ao.names[it.pos + 1]))]
         ELSE [iter |-> it, item |-> None]

\* next ending the sequence at the first name that does not resolve.
next_stop_at_err(it, ao, ps) ==
    IF it.state = "PodIter"
    THEN IF it.pos < Len(ps)
         THEN [iter |-> [it EXCEPT !.pos = it.pos + 1],
               item |-> Some(Ok([tag |-> "Pod", pod |-> ps[it.pos + 1]]))]
         ELSE [iter |-> it, item |-> None]
    ELSE IF /\ it.pos < Len(ao.names)
            /\ pod_or_service_or_err(ps, ao.names[it.pos + 1]).tag = "Ok"
         THEN [iter |-> [it EXCEPT !.pos = it.pos + 1],
               item |-> Some(pod_or_service_or_err(ps, ao.names[it.pos + 1]))]
         ELSE [iter |-> it, item |-> None]

\* PodsOrServices::next: the iterator after the call and the item returned.
next(it, ao, ps) ==
    IF it.state = "PodIter"
    THEN IF it.pos < Len(ps)
         THEN [iter |-> [it EXCEPT !.pos = it.pos + 1],
               item |-> Some(Ok([tag |-> "Pod", pod |-> ps[it.pos + 1]]))]
         ELSE [iter |-> it, item |-> None]
    ELSE IF it.pos < Len(ao.names)
         THEN [iter |-> [it EXCEPT !.pos = it.pos + 1],
               item |-> Some(pod_or_service_or_err(ps, ao.names[it.pos + 1]))]
         ELSE [iter |-> it, item |-> None]

\* A command makes an ActOn value and asks for its iterator.
PodsOrServices(ao) ==
    /\ act_on' = ao
    /\ iter' = pods_or_services(ao)
    /\ yielded' = <<>>
    /\ ended' = FALSE
    /\ UNCHANGED <<projectVars, hookVars, aliasVars, runVars>>

\* One call of next() on the iterator.
IterNext ==
    LET r == next(iter, act_on, pods)
    IN  /\ iter' = r.iter
        /\ yielded' = IF r.item.tag = "Some"
                      THEN Append(yielded, r.item.value) ELSE yielded
        /\ ended' = (ended \/ r.item.tag = "None")
        /\ UNCHANGED <<act_on, projectVars, hookVars, aliasVars, runVars>>

PodsOrServicesCall == \E ao \in ActOns : PodsOrServices(ao)

-----------------------------------------------------------------------------
(* ContextExt::human_alias.  A path or URL path is the sequence of its     *)
(* characters, where a character is "/", "." or a run of other characters. *)

MaxPathLen == 5

PathChars == {"/", ".", "hello", "git"}
PathStrings == UNION {[1..n -> PathChars] : n \in 0..MaxPathLen}
DEV == <<"dev">>

\* url.fragment() of the URLs, and url.path(), which starts with '/'.
Fragments == {None, Some(<<>>), Some(DEV)}
UrlPaths == {s \in PathStrings : starts_with(s, "/")}

GitUrl(path, fragment) == [kind |-> "GitUrl", path |-> path, fragment |-> fragment]
Dir(path) == [kind |-> "Dir", path |-> path]
Contexts ==
    {GitUrl(s, fr) : s \in UrlPaths, fr \in Fragments}
        \cup {Dir(s) : s \in PathStrings}
NoContext == [kind |-> "none"]

\* The pieces of s between its separators.
RECURSIVE split(_, _)
split(s, sep) ==
    IF \A k \in 1..Len(s) : s[k] # sep THEN <<s>>
    ELSE LET k == CHOOSE k \in 1..Len(s) :
                      s[k] = sep /\ \A l \in 1..(k - 1) : s[l] # sep
         IN  <<SubSeq(s, 1, k - 1)>> \o split(SubSeq(s, k + 1, Len(s)), sep)

\* Path::components().next_back(): the last component of the path.  Empty
\* pieces and "." are skipped, but for a "." that starts a relative path.
RECURSIVE next_back(_, _)
next_back(pieces, has_root) ==
    IF pieces = <<>>
    THEN IF has_root THEN [kind |-> "RootDir"] ELSE [kind |-> "None"]
    ELSE LET c == pieces[Len(pieces)]
             front == SubSeq(pieces, 1, Len(pieces) - 1)
         IN  IF c = <<>> THEN next_back(front, has_root)
             ELSE IF c = <<".">>
             THEN IF Len(pieces) = 1 /\ ~has_root THEN [kind |-> "CurDir"]
                  ELSE next_back(front, has_root)
             ELSE IF c = <<".", ".">> THEN [kind |-> "ParentDir"]
             ELSE [kind |-> "Normal", name |-> c]

\* Path::file_name
path_file_name(path) ==
    LET c == next_back(split(path, "/"), starts_with(path, "/"))
    IN  IF c.kind = "Normal" THEN Some(c.name) ELSE None

\* file.rsplitn(2, '.'): the part after the last '.', then the part before.
rsplitn2(file) ==
    IF \A k \in 1..Len(file) : file[k] # "." THEN <<Some(file), None>>
    ELSE LET k == CHOOSE k \in 1..Len(file) :
                      file[k] = "." /\ \A l \in (k + 1)..Len(file) : file[l] # "."
         IN  <<Some(SubSeq(file, k + 1, Len(file))), Some(SubSeq(file, 1, k - 1))>>

\* std's split_file_at_dot: <<before, after>> the last '.' of the name.
split_file_at_dot(file) ==
    IF file = <<".", ".">> THEN <<Some(file), None>>
    ELSE LET after == rsplitn2(file)[1]
             before == rsplitn2(file)[2]
         IN  IF before = Some(<<>>) THEN <<Some(file), None>>
             ELSE <<before, after>>

\* Path::file_stem
path_file_stem(path) ==
    LET file == path_file_name(path)
    IN  IF file = None THEN None
        ELSE LET ba == split_file_at_dot(file.value)
             IN  IF ba[1] # None THEN ba[1] ELSE ba[2]

CantGetRepoName == [tag |-> "Err", msg |-> "Can't get repo name"]

\* human_alias returning the base alias whatever the fragment is.
human_alias_no_branch(ctx) ==
    LET stem == path_file_stem(ctx.path)
    IN  IF stem = None THEN CantGetRepoName ELSE Ok(stem.value)

\* ContextExt::human_alias
human_alias(ctx) ==
    LET stem == path_file_stem(ctx.path)
    IN  IF ctx.kind = "GitUrl"
        THEN IF stem = None THEN CantGetRepoName
             ELSE IF ctx.fragment = None THEN Ok(stem.value)
             ELSE Ok(stem.value \o <<"_">> \o ctx.fragment.value)
        ELSE IF stem = None THEN CantGetRepoName
             ELSE Ok(stem.value)

\* A call of human_alias on the context at hand.
HumanAlias ==
    /\ alias = None
    /\ alias' = Some(human_alias(context))
    /\ UNCHANGED <<context, projectVars, actOnVars, hookVars, runVars>>

-----------------------------------------------------------------------------
(* Project::from_dirs.                                                     *)

PluginsManager == "plugins::Manager"

\* from_dirs returning the Project as it was first built.
from_dirs_no_plugins ==
    [plugins |-> None]

\* Project::from_dirs: the Project is built with plugins None, then the
\* manager made from it is stored in it, then it is returned.
from_dirs ==
    LET proj == [plugins |-> None]
    IN  [proj EXCEPT !.plugins = Some(PluginsManager)]

-----------------------------------------------------------------------------
(* main's run.  Each call on the Project and each try! of run is a step;  *)
(* log lists the steps the invocation has taken so far.                    *)

Subcommands ==
    {"sysinfo", "new", "status", "pull", "build", "up", "stop", "rm", "run",
     "exec", "shell", "test", "source", "generate", "logs", "export"}
NoProjectSubcommands == {"sysinfo", "new"}
SourceSubcommands == {"ls", "clone", "mount", "unmount"}

\* The command lines clap accepts: the subcommand, the subcommand of
\* source, whether --project-name and --default-tags are given, and the
\* target name.
Matches ==
    {m \in [sc_name : Subcommands,
            source : SourceSubcommands \cup {"none"},
            project_name : BOOLEAN,
            default_tags : BOOLEAN,
            target_name : OverrideNames] :
        (m.source # "none") = (m.sc_name = "source")}

NoMatches == [sc_name |-> "none"]

RunIdle == [pc |-> "idle", matches |-> NoMatches, target |-> "none",
            log |-> <<>>, result |-> "none", failed |-> "none"]

\* should_output_project answering true for every subcommand.
should_output_always(matches) == TRUE

\* ArgMatchesExt::should_output_project
should_output_project(matches) == matches.sc_name # "export"

\* The step taken, and the invocation moved on to pc.
Step(r, step, pc) == [r EXCEPT !.pc = pc, !.log = Append(r.log, step)]

\* try! on an error: run returns it.
Return(r, step, ok) ==
    [r EXCEPT !.pc = "done",
              !.result = IF ok THEN "Ok" ELSE "Err",
              !.failed = IF ok THEN "none" ELSE step]

\* run is called with the matches of a command line.
Run(m) ==
    /\ run.pc = "idle"
    /\ run' = [RunIdle EXCEPT
                  !.matches = m,
                  !.pc = IF m.sc_name \in NoProjectSubcommands
                         THEN "no_project" ELSE "from_current_dir"]
    /\ UNCHANGED <<projectVars, actOnVars, hookVars, aliasVars>>

\* The subcommands handled without a project directory.
RunNoProject(ok) ==
    /\ run.pc = "no_project"
    /\ run' = Return(Step(run, "action", "done"), "action", ok)
    /\ UNCHANGED <<projectVars, actOnVars, hookVars, aliasVars>>

\* Project::from_current_dir
RunFromCurrentDir(ok) ==
    /\ run.pc = "from_current_dir"
    /\ run' = IF ok THEN Step(run, "from_current_dir", "set_name")
              ELSE Return(Step(run, "from_current_dir", "done"),
                          "from_current_dir", FALSE)
    /\ default_tags' = IF ok THEN FALSE ELSE default_tags
    /\ plugins' = IF ok THEN from_dirs.plugins ELSE plugins
    /\ UNCHANGED <<pods, dirs, files, last, exported,
                   actOnVars, hookVars, aliasVars>>

\* proj.set_name, when --project-name is given.
RunSetName ==
    /\ run.pc = "set_name"
    /\ run' = IF run.matches.project_name
              THEN Step(run, "set_name", "set_default_tags")
              ELSE [run EXCEPT !.pc = "set_default_tags"]
    /\ UNCHANGED <<projectVars, actOnVars, hookVars, aliasVars>>

\* proj.set_default_tags, when --default-tags is given; ok: the file is
\* opened and read.
RunSetDefaultTags(ok) ==
    /\ run.pc = "set_default_tags"
    /\ ~run.matches.default_tags => ok
    /\ run' = IF ~run.matches.default_tags
              THEN [run EXCEPT !.pc = "set_current_target_name"]
              ELSE IF ok
              THEN Step(run, "set_default_tags", "set_current_target_name")
              ELSE Return(run, "set_default_tags", FALSE)
    /\ default_tags' = IF run.matches.default_tags /\ ok THEN TRUE
                       ELSE default_tags
    /\ UNCHANGED <<pods, dirs, files, last, exported, plugins,
                   actOnVars, hookVars, aliasVars>>

\* proj.set_current_target_name, then the test of should_output_project.
RunSetCurrentTargetName(ok) ==
    /\ run.pc = "set_current_target_name"
    /\ run' = IF ~ok THEN Return(run, "set_current_target_name", FALSE)
              ELSE [Step(run, "set_current_target_name",
                         IF should_output_project(run.matches)
                         THEN "output" ELSE "subcommand")
                       EXCEPT !.target = run.matches.target_name]
    /\ UNCHANGED <<projectVars, actOnVars, hookVars, aliasVars>>

\* proj.output() of run (pc "output") and of run_source (pc "re_output").
RunOutput(fail, rm_fails) ==
    LET existed == Exists(output_pods_dir, dirs, files)
        r == Unwound(plugins, pods, fail,
                     output(pods, run.target, default_tags,
                            StopAt(plugins, pods, fail), rm_fails, dirs, files))
        again == run.pc = "re_output"
    IN  /\ run.pc \in {"output", "re_output"}
        /\ rm_fails => existed /\ fail = NoFail
        /\ dirs' = r.dirs
        /\ files' = r.files
        /\ last' = Call("output", run.target, output_pods_dir, existed,
                        IF r.result = "Err" THEN fail.pod ELSE 0, r)
        /\ run' = IF r.result # "Ok"
                  THEN Return(Step(run, "output", "done"), run.pc, FALSE)
                  ELSE IF again
                  THEN Return(Step(run, "output", "done"), run.pc, TRUE)
                  ELSE Step(run, "output", "subcommand")
        /\ UNCHANGED <<pods, default_tags, exported, plugins,
                       actOnVars, hookVars, aliasVars>>

\* The subcommands that act on the project through docker-compose or
\* print: status, pull, build, up, stop, rm, run, exec, shell, test,
\* generate and logs.
RunSubcommand(ok) ==
    /\ run.pc = "subcommand"
    /\ run.matches.sc_name \notin {"source", "export"}
    /\ run' = Return(Step(run, "action", "done"), "action", ok)
    /\ UNCHANGED <<projectVars, actOnVars, hookVars, aliasVars>>

\* The export subcommand: proj.export to the directory DIR.
RunExport(export_dir, fail) ==
    LET existed == Exists(export_dir, dirs, files)
        r == Unwound(plugins, pods, fail,
                     export(pods, run.target, export_dir, default_tags,
                            StopAt(plugins, pods, fail), dirs, files))
    IN  /\ run.pc = "subcommand"
        /\ run.matches.sc_name = "export"
        /\ existed => fail = NoFail
        /\ dirs' = r.dirs
        /\ files' = r.files
        /\ last' = [Call("export", run.target, export_dir, existed,
                         IF r.result = "Err" THEN fail.pod ELSE 0, r)
                        EXCEPT !.warned = export_warns(default_tags, existed)]
        /\ exported' = IF r.result = "Ok" THEN exported \cup {export_dir}
                       ELSE exported
        /\ run' = Return(Step(run, "action", "done"), "action", r.result = "Ok")
        /\ UNCHANGED <<pods, default_tags, plugins,
                       actOnVars, hookVars, aliasVars>>

\* proj.source_clone: the local clone of the repository is made.
source_clone(d) == d \cup {repo_path} \cup Ancestors(repo_path)

\* proj.source_set_mounted: the mount state of a repository is the
\* existence of its local clone, made when it is mounted and removed when
\* it is unmounted.
source_set_mounted(d, mounted) ==
    IF mounted THEN source_clone(d) ELSE remove_dirs(repo_path, d)

\* What a subcommand of source that succeeds does to the disk.
source_action(source, d) ==
    CASE source = "ls" -> d
      [] source = "clone" -> source_clone(d)
      [] source = "mount" -> source_set_mounted(d, TRUE)
      [] source = "unmount" -> source_set_mounted(d, FALSE)

\* run_source regenerating the output after every subcommand.
re_output_always(source) == TRUE

\* re_output of run_source: true, but for ls.
re_output(source) == source # "ls"

\* run_source up to the test of re_output: ls, clone, mount or unmount.
RunSource(ok) ==
    /\ run.pc = "subcommand"
    /\ run.matches.sc_name = "source"
    /\ run' = IF ~ok THEN Return(Step(run, "action", "done"), "action", FALSE)
              ELSE IF ~re_output(run.matches.source)
              THEN Return(Step(run, "action", "done"), "action", TRUE)
              ELSE Step(run, "action", "re_output")
    /\ dirs' = IF ok THEN source_action(run.matches.source, dirs) ELSE dirs
    /\ UNCHANGED <<pods, default_tags, files, last, exported, plugins,
                   actOnVars, hookVars, aliasVars>>

RunCall == \E m \in Matches : Run(m)
RunNoProjectStep == \E ok \in BOOLEAN : RunNoProject(ok)
RunFromCurrentDirStep == \E ok \in BOOLEAN : RunFromCurrentDir(ok)
RunSetDefaultTagsStep == \E ok \in BOOLEAN : RunSetDefaultTags(ok)
RunSetCurrentTargetNameStep == \E ok \in BOOLEAN : RunSetCurrentTargetName(ok)
RunOutputStep == \E rm_fails \in BOOLEAN :
                    \E fail \in Fails(pods) : RunOutput(fail, rm_fails)
RunSubcommandStep == \E ok \in BOOLEAN : RunSubcommand(ok)
RunExportStep == \E export_dir \in ExportDirs :
                    \E fail \in Fails(pods) : RunExport(export_dir, fail)
RunSourceStep == \E ok \in BOOLEAN : RunSource(ok)

-----------------------------------------------------------------------------
(* Initial states and specifications.                                      *)

\* What an earlier run left in the output pods directory: the file of a pod
\* that has since been removed from the project.
StaleFile == output_pods_dir \o <<"worker.yml">>
StaleDoc == [pod |-> "worker", ovr |-> "development",
             context |-> [image_only |-> TRUE], volumes |-> {},
             image |-> "as_written"]

\* Project::from_dirs on a disk that holds the directories d and the files f.
Load(d, f) ==
    /\ pods \in PodLists
    /\ default_tags = FALSE
    /\ dirs = d
    /\ files = f
    /\ last = [op |-> "from_dirs", ovr |-> "none", dir |-> <<>>,
               existed |-> FALSE, fail |-> 0, result |-> "Ok",
               written |-> <<>>, repeat |-> FALSE, warned |-> FALSE]
    /\ exported = {}
    /\ act_on = ActOnAll
    /\ iter = pods_or_services(ActOnAll)
    /\ yielded = <<>>
    /\ ended = FALSE
    /\ hook_dir = [exists |-> FALSE, entries |-> {}]
    /\ hook = HookIdle
    /\ hook_log = <<>>
    /\ plugins = from_dirs.plugins
    /\ context = NoContext
    /\ alias = None
    /\ run = RunIdle

\* A project loaded on a disk that holds no output yet.
Init == Load({root_dir}, << >>)

\* A project loaded on a disk that holds the output of an earlier run.
InitStale ==
    Load({root_dir, output_dir, output_pods_dir},
         [q \in {StaleFile} |-> StaleDoc])

Next ==
    \/ OutputCall
    \/ ExportCall
    \/ SetDefaultTags
    \/ FakeCloneSource

Spec == Init /\ [][Next]_vars

SpecStale == InitStale /\ [][Next]_vars

NextActOn ==
    \/ PodsOrServicesCall
    \/ IterNext

SpecActOn == Init /\ [][NextActOn]_vars

\* The hello project loaded.
InitHello ==
    /\ pods = <<[name |-> "frontend", pod_type |-> "Service", repo |-> TRUE]>>
    /\ default_tags = FALSE
    /\ dirs = {root_dir}
    /\ files = << >>
    /\ last = [op |-> "from_dirs", ovr |-> "none", dir |-> <<>>,
               existed |-> FALSE, fail |-> 0, result |-> "Ok",
               written |-> <<>>, repeat |-> FALSE, warned |-> FALSE]
    /\ exported = {}
    /\ plugins = from_dirs.plugins
    /\ act_on = ActOnAll
    /\ iter = pods_or_services(ActOnAll)
    /\ yielded = <<>>
    /\ ended = FALSE

\* The hello project loaded, with some hook directory on disk.
InitHook ==
    /\ InitHello
    /\ hook_dir \in HookDirs
    /\ hook = HookIdle
    /\ hook_log = <<>>
    /\ context = NoContext
    /\ alias = None
    /\ run = RunIdle

NextHook ==
    \/ InvokeCall
    \/ ExecStart
    \/ ExecFinishes

SpecHook == InitHook /\ [][NextHook]_vars

\* The hello project loaded, and no alias derived yet.
InitAlias ==
    /\ InitHello
    /\ hook_dir = [exists |-> FALSE, entries |-> {}]
    /\ hook = HookIdle
    /\ hook_log = <<>>
    /\ context \in Contexts
    /\ alias = None
    /\ run = RunIdle

NextAlias == HumanAlias

SpecAlias == InitAlias /\ [][NextAlias]_vars

\* The disks an invocation of run can find: with or without the output of
\* an earlier invocation, with or without the clone of the repository.
RunDisks ==
    {[dirs |-> d \cup c, files |-> f] :
        d \in {{root_dir}, {root_dir, output_dir, output_pods_dir}},
        c \in {{}, {repo_path} \cup Ancestors(repo_path)},
        f \in {<< >>, [q \in {StaleFile} |-> StaleDoc]}}

\* The hello project on some disk, and no invocation of run yet.
InitRun ==
    /\ pods = <<[name |-> "frontend", pod_type |-> "Service", repo |-> TRUE]>>
    /\ default_tags = FALSE
    /\ \E disk \in RunDisks :
          /\ StaleFile \in DOMAIN disk.files => output_pods_dir \in disk.dirs
          /\ dirs = disk.dirs
          /\ files = disk.files
    /\ last = [op |-> "from_dirs", ovr |-> "none", dir |-> <<>>,
               existed |-> FALSE, fail |-> 0, result |-> "Ok",
               written |-> <<>>, repeat |-> FALSE, warned |-> FALSE]
    /\ exported = {}
    /\ plugins = from_dirs.plugins
    /\ act_on = ActOnAll
    /\ iter = pods_or_services(ActOnAll)
    /\ yielded = <<>>
    /\ ended = FALSE
    /\ hook_dir = [exists |-> FALSE, entries |-> {}]
    /\ hook = HookIdle
    /\ hook_log = <<>>
    /\ context = NoContext
    /\ alias = None
    /\ run = RunIdle

NextRun ==
    \/ RunCall
    \/ RunNoProjectStep
    \/ RunFromCurrentDirStep
    \/ RunSetName
    \/ RunSetDefaultTagsStep
    \/ RunSetCurrentTargetNameStep
    \/ RunOutputStep
    \/ RunSubcommandStep
    \/ RunExportStep
    \/ RunSourceStep

SpecRun == InitRun /\ [][NextRun]_vars

-----------------------------------------------------------------------------
(* The output pods tree.                                                   *)

OutTreeFiles == Under(output_pods_dir, files)
OutTreeDirs == {q \in dirs : IsPrefix(output_pods_dir, q)}
OutTree == [q \in OutTreeFiles |-> files[q]]

PodFile(pod) == <<".conductor", "pods", pod.name \o ".yml">>

TreeAbsent == OutTreeFiles = {} /\ OutTreeDirs = {}

\* The tree holds the files of the first k pods and nothing else, all made
\* by one output call.
Materialized(k) ==
    /\ OutTreeDirs \subseteq {output_pods_dir}
    /\ OutTreeFiles = {PodFile(pods[i]) : i \in 1..k}
    /\ \E ovr \in OverrideNames, tags \in BOOLEAN, mounted \in BOOLEAN :
          \A i \in 1..k :
              files[PodFile(pods[i])] =
                  Document("Output", pods[i], ovr, tags, mounted)

TreeComplete == Materialized(Len(pods))

-----------------------------------------------------------------------------
(* Claims about output and export.                                         *)

\* C1: an export call whose destination exists when it is made returns the
\* destination-exists error, writes nothing and leaves every directory and
\* file on disk as it was.
C1_ExportNoClobber ==
    [][(last'.op = "export" /\ Exists(last'.dir, dirs, files))
          => /\ last'.result = "DestinationExists"
             /\ last'.written = <<>>
             /\ dirs' = dirs
             /\ files' = files]_vars

\* C1 witness: an export was refused on a destination that holds files.
C1_Witness ==
    /\ last.op = "export"
    /\ last.existed
    /\ last.result = "DestinationExists"
    /\ Under(last.dir, files) # {}

\* C2: after a successful output call, whatever the pods directory held
\* before, the files below it are exactly the files <pod>.yml of the pods of
\* the project, each written by this call, and it has no subdirectory.
C2_OutputReplacesTree ==
    (last.op = "output" /\ last.result = "Ok")
        => /\ OutTreeFiles = {PodFile(pods[i]) : i \in 1..Len(pods)}
           /\ OutTreeFiles = {last.written[i] : i \in 1..Len(last.written)}
           /\ Len(last.written) = Len(pods)
           /\ \A i \in 1..Len(pods) :
                 /\ files[PodFile(pods[i])].pod = pods[i].name
                 /\ files[PodFile(pods[i])].ovr = last.ovr
           /\ OutTreeDirs \subseteq {output_pods_dir}

\* C2 witness: an output call succeeded for two pods on a pods directory
\* that existed before the call.
C2_Witness ==
    /\ last.op = "output"
    /\ last.result = "Ok"
    /\ last.existed
    /\ Len(pods) = 2

\* C3: export writes a Task pod to <export_dir>/tasks/<name>.yml and a
\* Service pod to <export_dir>/<name>.yml; output writes every pod to
\* <output_dir>/pods/<name>.yml.
C3_TaskPlacement ==
    /\ \A i \in 1..Len(last.written) :
          /\ last.written[i] \in DOMAIN files
          /\ files[last.written[i]].pod = pods[i].name
          /\ last.op = "export" =>
                last.written[i] =
                    IF pods[i].pod_type = "Task"
                    THEN last.dir \o <<"tasks", pods[i].name \o ".yml">>
                    ELSE last.dir \o <<pods[i].name \o ".yml">>
          /\ last.op = "output" =>
                last.written[i] = <<".conductor", "pods", pods[i].name \o ".yml">>
    /\ (last.op \in {"export", "output"} /\ last.result = "Ok")
          => Len(last.written) = Len(pods)

\* C3 witness: an export succeeded for a Task pod and a Service pod while
\* the output pods directory holds the files of both.
C3_Witness ==
    /\ last.op = "export"
    /\ last.result = "Ok"
    /\ \E i, j \in 1..Len(pods) :
          /\ pods[i].pod_type = "Task"
          /\ pods[j].pod_type = "Service"
          /\ PodFile(pods[i]) \in DOMAIN files
          /\ PodFile(pods[j]) \in DOMAIN files

\* C4: an output call that succeeds right after a successful output call
\* with the same override leaves the output pods tree as that call left it.
C4_OutputIdempotent ==
    [][(/\ last.op = "output"
        /\ last.result = "Ok"
        /\ last'.op = "output"
        /\ last'.result = "Ok"
        /\ last'.ovr = last.ovr)
          => /\ OutTree' = OutTree
             /\ OutTreeDirs' = OutTreeDirs]_vars

\* C4 witness: a successful output call that repeats a successful output
\* call of the same override, on a project with pods.
C4_Witness ==
    /\ last.op = "output"
    /\ last.result = "Ok"
    /\ last.repeat
    /\ Len(pods) = 2

\* C5: for a pod that builds from the source repository, with the local
\* clone present, the file output writes has the clone's path as build
\* context and a volume for it; the file export writes has the remote
\* reference as build context and no volume for the clone, whether or not
\* the clone is present.
C5_OperationDivergence ==
    \A i \in 1..Len(last.written) :
        pods[i].repo =>
            /\ (last.op = "output" /\ is_mounted(dirs)) =>
                  /\ files[last.written[i]].context = [Dir |-> <<"src", RepoAlias>>]
                  /\ <<"src", RepoAlias>> \in files[last.written[i]].volumes
            /\ last.op = "export" =>
                  /\ files[last.written[i]].context = [GitUrl |-> RepoUrl]
                  /\ <<"src", RepoAlias>> \notin files[last.written[i]].volumes

\* C5 witness: with the clone present, an export has written the file of a
\* pod that builds from the repository, and the output tree holds the file
\* of the same pod with the clone as build context.
C5_Witness ==
    /\ is_mounted(dirs)
    /\ last.op = "export"
    /\ last.result = "Ok"
    /\ \E i \in 1..Len(pods) :
          /\ pods[i].repo
          /\ PodFile(pods[i]) \in DOMAIN files
          /\ files[PodFile(pods[i])].context = [Dir |-> repo_path]

\* C6 as claimed: for every project, once an export to a destination has
\* succeeded, every later export to that destination returns the
\* destination-exists error.
C6_Original ==
    [][(last'.op = "export" /\ last'.dir \in exported)
          => last'.result = "DestinationExists"]_vars

\* C6 as amended: the same, for every project with at least one pod.
C6_ExportSingleShot ==
    [][(last'.op = "export" /\ last'.dir \in exported /\ Len(pods) >= 1)
          => last'.result = "DestinationExists"]_vars

\* C6 witness: on a project with pods, an export was refused on a
\* destination an earlier export had succeeded on.
C6_Witness ==
    /\ last.op = "export"
    /\ last.result = "DestinationExists"
    /\ last.dir \in exported
    /\ Len(pods) >= 1

\* C7 as claimed: in every state the output pods tree is absent or a
\* complete materialization of all pods.
C7_Original == TreeAbsent \/ TreeComplete

\* C7 as amended: in every state the output pods tree is absent or holds the
\* files of a leading part of the pods, made by one output call; it stops
\* being absent or complete only by an output call that fails.
C7_AbsentPrefixOrComplete ==
    [][/\ TreeAbsent' \/ \E k \in 0..Len(pods) : Materialized(k)'
       /\ ((TreeAbsent \/ TreeComplete) /\ ~(TreeAbsent' \/ TreeComplete'))
             => (last'.op = "output" /\ last'.result = "Err")]_vars

\* C7 witness: an output call failed at the second pod and left the file of
\* the first pod alone in the tree.
C7_Witness ==
    /\ last.op = "output"
    /\ last.result = "Err"
    /\ last.fail = 2
    /\ Materialized(1)

-----------------------------------------------------------------------------
(* Claims about ActOn.                                                     *)

\* C8: the iterator of ActOn::All yields the pods of the project, once each
\* and in declaration order, each as Ok(Pod(pod)); it yields no service and
\* no error, and when it has ended it has yielded every pod.
C8_AllYieldsPods ==
    act_on.kind = "All" =>
        /\ Len(yielded) <= Len(pods)
        /\ \A i \in 1..Len(yielded) :
              yielded[i] = [tag |-> "Ok",
                            value |-> [tag |-> "Pod", pod |-> pods[i]]]
        /\ ended => Len(yielded) = Len(pods)

\* C8 witness: the iterator of ActOn::All has ended on a project of two
\* pods after yielding two items.
C8_Witness ==
    /\ act_on.kind = "All"
    /\ ended
    /\ Len(pods) = 2
    /\ Len(yielded) = 2

\* The names that resolve against the project: its pods and their services.
Resolvable ==
    {pods[i].name : i \in 1..Len(pods)} \cup
    UNION {ServicesOf(pods[i]) : i \in 1..Len(pods)}

\* C9: the iterator of ActOn::Named(names) yields one item per name, in the
\* order given and with duplicates kept; the i-th item is the resolution of
\* names[i], an error carrying the name exactly when it is neither a pod
\* nor a service; an error does not end the sequence.
C9_NamedYieldsPerName ==
    act_on.kind = "Named" =>
        /\ Len(yielded) <= Len(act_on.names)
        /\ \A i \in 1..Len(yielded) :
              LET name == act_on.names[i]
              IN  /\ yielded[i] = pod_or_service_or_err(pods, name)
                  /\ name \notin Resolvable
                        <=> yielded[i] = [tag |-> "Err", name |-> name]
                  /\ name \in {pods[j].name : j \in 1..Len(pods)}
                        => /\ yielded[i].tag = "Ok"
                           /\ yielded[i].value.tag = "Pod"
                           /\ yielded[i].value.pod.name = name
        /\ ended => Len(yielded) = Len(act_on.names)

\* C9 witness: the iterator has ended after yielding an error for the
\* first name and a resolution for the second.
C9_Witness ==
    /\ act_on.kind = "Named"
    /\ ended
    /\ Len(yielded) = 2
    /\ yielded[1].tag = "Err"
    /\ yielded[2].tag = "Ok"

-----------------------------------------------------------------------------
(* Claims about HookManager::invoke.                                       *)

\* The names of the entries of the hook directory that invoke selects.
Selected ==
    {e.name : e \in {e \in hook_dir.entries :
                        /\ e.is_file
                        /\ e.name[1] # "."
                        /\ e.name \in {A_HOOK, AB_HOOK, B_HOOK, HIDDEN_HOOK}}}

\* C10: invoke runs the selected scripts one at a time in ascending order
\* of their paths, whatever the order of the directory listing: when a
\* script starts, the command before it has finished, and every selected
\* script that sorts before it has finished successfully.
C10_HookOrdering ==
    \A j \in 1..Len(hook_log) :
        hook_log[j].event = "start" =>
            /\ j > 1 => /\ hook_log[j - 1].event = "ok"
                        /\ PathLess(hook_log[j - 1].script, hook_log[j].script)
            /\ \A t \in Selected :
                  PathLess(t, hook_log[j].script) =>
                      \E i \in 1..(j - 1) :
                          hook_log[i] = [hook_log[j] EXCEPT !.script = t,
                                                            !.event = "ok"]

\* C10 witness: the listing returned b.hook before a.hook, and b.hook has
\* been started.
C10_Witness ==
    /\ \E i, j \in 1..Len(hook.listing) :
          /\ i < j
          /\ hook.listing[i] = [name |-> B_HOOK, is_file |-> TRUE]
          /\ hook.listing[j] = [name |-> A_HOOK, is_file |-> TRUE]
    /\ \E j \in 1..Len(hook_log) :
          hook_log[j] = [script |-> B_HOOK, event |-> "start", env |-> hook.env]

-----------------------------------------------------------------------------
(* More claims about HookManager::invoke.                                  *)

\* The events of the log that are about a script.
EventsOf(script, event) ==
    {j \in 1..Len(hook_log) :
        hook_log[j].script = script /\ hook_log[j].event = event}

\* C11: invoke runs an entry of the hook directory only if it is a regular
\* file whose name does not start with '.' and ends with ".hook", so no
\* subdirectory, hidden file or file of another suffix is run; no script is
\* started twice, and when invoke returns Ok every such entry has been run
\* exactly once.
C11_HookSelection ==
    /\ \A j \in 1..Len(hook_log) : hook_log[j].script \in Selected
    /\ \A t \in Selected : Cardinality(EventsOf(t, "start")) <= 1
    /\ (hook.pc = "done" /\ hook.result = "Ok") =>
          \A t \in Selected :
              /\ Cardinality(EventsOf(t, "start")) = 1
              /\ Cardinality(EventsOf(t, "ok")) = 1

\* C11 witness: invoke has returned Ok having run a.hook alone, in a
\* directory that also holds a hidden hook file and a subdirectory b.hook.
C11_Witness ==
    /\ hook.pc = "done"
    /\ hook.result = "Ok"
    /\ hook_dir.entries = {[name |-> A_HOOK, is_file |-> TRUE],
                           [name |-> HIDDEN_HOOK, is_file |-> TRUE],
                           [name |-> B_HOOK, is_file |-> FALSE]}
    /\ Len(hook_log) = 2
    /\ hook_log[1].script = A_HOOK

\* C12: when a script fails, invoke returns at once with the error of that
\* script: the failure is the last event of the log, every selected script
\* that sorts before the failing one has been run successfully, and no
\* script that sorts after it has been started.
C12_HookFailureAborts ==
    \A j \in 1..Len(hook_log) :
        hook_log[j].event = "failed" =>
            /\ j = Len(hook_log)
            /\ hook.pc = "done"
            /\ hook.result = "Err"
            /\ hook.error = [kind |-> "command", script |-> hook_log[j].script]
            /\ \A t \in Selected :
                  /\ PathLess(t, hook_log[j].script) =>
                        /\ EventsOf(t, "start") # {}
                        /\ EventsOf(t, "ok") # {}
                  /\ PathLess(hook_log[j].script, t) =>
                        EventsOf(t, "start") = {}

\* C12 witness: of three hooks, the first has run and the second has failed.
C12_Witness ==
    /\ Cardinality(Selected) = 3
    /\ Len(hook_log) = 4
    /\ hook_log[2].event = "ok"
    /\ hook_log[4].event = "failed"
    /\ hook.pc = "done"

\* C13: when the hook directory does not exist, invoke returns Ok without
\* running a command and without an error.
C13_NoHookDir ==
    ~hook_dir.exists =>
        /\ hook.pc \in {"idle", "done"}
        /\ hook_log = <<>>
        /\ hook.pc = "done" => (hook.result = "Ok" /\ hook.error = NoError)

\* C13 witness: invoke has returned for a hook directory that does not
\* exist.
C13_Witness ==
    /\ ~hook_dir.exists
    /\ hook.pc = "done"

\* C14: every command invoke starts was built with every entry of env, and
\* all commands of one invocation with the same set of entries.
C14_HookEnv ==
    \A j \in 1..Len(hook_log) :
        /\ \A name \in DOMAIN hook.env :
              /\ name \in DOMAIN hook_log[j].env
              /\ hook_log[j].env[name] = hook.env[name]
        /\ \A i \in 1..Len(hook_log) :
              DOMAIN hook_log[i].env = DOMAIN hook_log[j].env

\* C14 witness: two scripts have been started with an env of two entries.
C14_Witness ==
    /\ Cardinality(DOMAIN hook.env) = 2
    /\ \E i, j \in 1..Len(hook_log) :
          /\ i < j
          /\ hook_log[i].event = "start"
          /\ hook_log[j].event = "start"

-----------------------------------------------------------------------------
(* Claims about human_alias.                                               *)

\* The characters i..j of path p are its final component: a name other
\* than "." and "..", followed by nothing but separators and "." pieces.
IsFinalComponent(p, i, j) ==
    /\ i <= j
    /\ i = 1 \/ p[i - 1] = "/"
    /\ j = Len(p) \/ p[j + 1] = "/"
    /\ \A k \in i..j : p[k] # "/"
    /\ SubSeq(p, i, j) \notin {<<".">>, <<".", ".">>}
    /\ \A k \in (j + 1)..Len(p) :
          \/ p[k] = "/"
          \/ /\ p[k] = "."
             /\ p[k - 1] = "/"
             /\ k = Len(p) \/ p[k + 1] = "/"

\* s is the stem of the name n: n without its last '.' and what follows
\* it, or n itself when it has no '.' after its first character.
IsStem(s, n) ==
    \/ /\ s = n
       /\ \A k \in 2..Len(n) : n[k] # "."
    \/ /\ s # <<>>
       /\ \E k \in 2..Len(n) :
             /\ n[k] = "."
             /\ s = SubSeq(n, 1, k - 1)
             /\ \A l \in (k + 1)..Len(n) : n[l] # "."

\* C15: human_alias returns the one value its source reference fixes: the
\* stem of the final component of the URL path or directory path, followed
\* by '_' and the fragment exactly when the reference is a URL that has a
\* fragment; and it returns an error when the path has no final component.
C15_HumanAlias ==
    alias # None =>
        LET p == context.path
            a == alias.value
            suffix == IF context.kind = "GitUrl" /\ context.fragment # None
                      THEN <<"_">> \o context.fragment.value
                      ELSE <<>>
        IN  /\ \A i, j \in 1..Len(p) :
                  IsFinalComponent(p, i, j) =>
                      /\ a.tag = "Ok"
                      /\ IsStem(SubSeq(a.value, 1,
                                       Len(a.value) - Len(suffix)),
                                SubSeq(p, i, j))
                      /\ SubSeq(a.value,
                                Len(a.value) - Len(suffix) + 1,
                                Len(a.value)) = suffix
            /\ (\A i, j \in 1..Len(p) : ~IsFinalComponent(p, i, j)) =>
                  a = CantGetRepoName

\* C15 witness: the alias of the URL path /hello.git with fragment dev has
\* been derived, and is hello_dev.
C15_Witness ==
    /\ context = GitUrl(<<"/", "hello", ".", "git">>, Some(DEV))
    /\ alias = Some(Ok(<<"hello", "_", "dev">>))

-----------------------------------------------------------------------------
(* More claims about output and export.                                    *)

\* The Operation a call hands to output_helper.
OperationOf(op) == IF op = "export" THEN "Export" ELSE "Output"

\* Where the last call puts the i-th pod.
OutPath(i) == last.dir \o rel_path(OperationOf(last.op), pods[i])

\* C16: output and export process the pods one at a time in declaration
\* order, each through merge, standalone, transform and write.  When a step
\* fails for a pod the call returns the error at once: the files of the
\* pods before it are written, in order, and remain; no file is written for
\* the failing pod and none for the pods after it.
C16_FailureStopsAtPod ==
    (last.op \in {"output", "export"} /\ last.result \in {"Ok", "Err"}) =>
        LET n == IF last.result = "Err" THEN last.fail - 1 ELSE Len(pods)
        IN  /\ last.result = "Err" => last.fail \in 1..Len(pods)
            /\ last.written = [i \in 1..n |-> OutPath(i)]
            /\ \A i \in 1..n :
                  /\ OutPath(i) \in DOMAIN files
                  /\ files[OutPath(i)] =
                        Document(OperationOf(last.op), pods[i], last.ovr,
                                 default_tags, is_mounted(dirs))
            /\ \A i \in (n + 1)..Len(pods) : OutPath(i) \notin DOMAIN files

\* C16 witness: an export of two pods has failed at the second pod, with the
\* file of the first pod written and no file for the second.
C16_Witness ==
    /\ last.op = "export"
    /\ last.result = "Err"
    /\ last.fail = 2
    /\ Len(pods) = 2
    /\ OutPath(1) \in DOMAIN files
    /\ OutPath(2) \notin DOMAIN files

\* The paths on disk, before or after a step, that are not the output pods
\* directory nor below it.
Outside(paths) == {q \in paths : ~IsPrefix(output_pods_dir, q)}

\* C17: an output call, whether it succeeds or fails, removes and changes
\* nothing outside <output_dir>/pods: every directory and file outside it
\* is still there with the same contents, no file appears outside it, and
\* the only directories that can appear are the ones leading to it.
C17_OutputScopedToPodsDir ==
    [][last'.op = "output" =>
          /\ Outside(dirs) \subseteq dirs'
          /\ Outside(dirs') \ dirs \subseteq Ancestors(output_pods_dir)
          /\ Outside(DOMAIN files') = Outside(DOMAIN files)
          /\ \A q \in Outside(DOMAIN files) : files'[q] = files[q]]_vars

\* C17 witness: an output call has deleted and rewritten the pods directory
\* while an earlier export lies next to it under the output directory.
C17_Witness ==
    /\ last.op = "output"
    /\ last.existed
    /\ last.result = "Ok"
    /\ Len(pods) > 0
    /\ \E q \in DOMAIN files :
          /\ IsPrefix(output_dir, q)
          /\ ~IsPrefix(output_pods_dir, q)

\* C18: every Project a load has returned has its transform pipeline set,
\* the one from_dirs made: the plugins field is never None outside
\* from_dirs, no operation replaces or clears it, and no output or export
\* call hits the panic of plugins().
C18_PluginsAlwaysSet ==
    /\ plugins = Some(PluginsManager)
    /\ ~plugins_panics(plugins)
    /\ last.result # "panic"

\* C18 witness: an export has run the transform step of two pods and
\* returned Ok, with the pipeline still set.
C18_Witness ==
    /\ last.op = "export"
    /\ last.result = "Ok"
    /\ Len(last.written) = 2
    /\ plugins # None

\* C19: an export without default tags to a destination that does not
\* exist warns and then goes on as an export with default tags does: it
\* returns no error of its own, it hands every pod to the steps with
\* Operation::Export, and it fails only where a step of a pod fails, leaving
\* what the export with default tags leaves but for the image tags.
C19_ExportWithoutDefaultTags ==
    [][(last'.op = "export" /\ ~default_tags /\ ~last'.existed) =>
          /\ last'.warned
          /\ last'.result \in {"Ok", "Err"}
          /\ (last'.result = "Err") = (last'.fail \in 1..Len(pods))
          /\ \A i \in 1..Len(last'.written) :
                files'[last'.written[i]] =
                    Document("Export", pods[i], last'.ovr, FALSE,
                             is_mounted(dirs))
          /\ \E fail \in Fails(pods) :
                LET r == export(pods, last'.ovr, last'.dir, TRUE, fail,
                                dirs, files)
                IN  /\ r.result = last'.result
                    /\ r.written = last'.written
                    /\ r.dirs = dirs'
                    /\ DOMAIN r.files = DOMAIN files'
                    /\ \A q \in DOMAIN r.files :
                          r.files[q] = files'[q]
                              \/ [r.files[q] EXCEPT !.image = "as_written"]
                                     = files'[q]]_vars

\* C19 witness: an export of two pods without default tags has warned and
\* returned Ok.
C19_Witness ==
    /\ last.op = "export"
    /\ ~default_tags
    /\ last.warned
    /\ last.result = "Ok"
    /\ Len(pods) = 2

-----------------------------------------------------------------------------
(* Claims about main's run.                                                *)

\* The positions of a step in the log of the invocation.
Pos(step) == {i \in 1..Len(run.log) : run.log[i] = step}

Setters == {"set_name", "set_default_tags", "set_current_target_name"}

\* C20: when the action of a subcommand that requires a project and is not
\* export starts, the project has been output before it and after the name,
\* the default tags and the target were set; the output stands in the pods
\* directory when the action is about to start; no output comes before the
\* action of export; and when that output fails the action does not run.
C20_OutputBeforeSubcommand ==
    LET m == run.matches
    IN  /\ \A j \in Pos("action") :
              (m.sc_name \notin NoProjectSubcommands \cup {"export"}) =>
                  /\ \E i \in Pos("output") :
                        /\ i < j
                        /\ \A s \in Setters : \A k \in Pos(s) : k < i
                  /\ Pos("set_current_target_name") # {}
                  /\ m.project_name => Pos("set_name") # {}
                  /\ m.default_tags => Pos("set_default_tags") # {}
        /\ (run.pc = "subcommand" /\ m.sc_name # "export") =>
              \A i \in 1..Len(pods) :
                  /\ PodFile(pods[i]) \in DOMAIN files
                  /\ files[PodFile(pods[i])] =
                        Document("Output", pods[i], m.target_name,
                                 m.default_tags, is_mounted(dirs))
        /\ m.sc_name = "export" => Pos("output") = {}
        /\ run.failed = "output" =>
              /\ Pos("action") = {}
              /\ run.pc = "done"
              /\ run.result = "Err"

\* C20 witness: up has run with --project-name and --default-tags, after
\* the three settings and the output, in that order.
C20_Witness ==
    /\ run.matches.sc_name = "up"
    /\ run.log = <<"from_current_dir", "set_name", "set_default_tags",
                   "set_current_target_name", "output", "action">>
    /\ run.result = "Ok"

\* The outputs the invocation has made after the action of its subcommand.
OutputsAfterAction ==
    {i \in Pos("output") : \E j \in Pos("action") : j < i}

\* The action of a subcommand of source that changes the mount state has
\* succeeded, and run has returned.
SourceChanged ==
    /\ run.matches.sc_name = "source"
    /\ run.matches.source \in {"clone", "mount", "unmount"}
    /\ Pos("action") # {}
    /\ run.failed # "action"
    /\ run.pc = "done"

\* The pods directory holds the output of every pod for the mount state.
Reflects(mounted) ==
    /\ is_mounted(dirs) = mounted
    /\ \A i \in 1..Len(pods) :
          /\ PodFile(pods[i]) \in DOMAIN files
          /\ files[PodFile(pods[i])] =
                Document("Output", pods[i], run.matches.target_name,
                         run.matches.default_tags, mounted)

\* C21 as claimed: when run returns after a source clone, mount or unmount
\* that succeeded, the output has been regenerated once after the change and
\* the pods directory reflects the new mount state; after source ls, and
\* after a source subcommand that failed, nothing is regenerated.
C21_Original ==
    /\ SourceChanged =>
          /\ Cardinality(OutputsAfterAction) = 1
          /\ Reflects(run.matches.source \in {"clone", "mount"})
    /\ (run.matches.sc_name = "source" /\ run.matches.source = "ls") =>
          OutputsAfterAction = {}
    /\ (run.matches.sc_name = "source" /\ run.failed = "action") =>
          OutputsAfterAction = {}

\* C21 as amended: when run returns after a source clone, mount or unmount
\* that succeeded, one regeneration of the output has been started after
\* the change, and run returns Ok exactly when it succeeded; the pods
\* directory then reflects the new mount state.  When the regeneration
\* fails run returns its error.  After source ls, and after a source
\* subcommand that failed, nothing is regenerated.
C21_ReOutputAfterSource ==
    /\ SourceChanged =>
          /\ Cardinality(OutputsAfterAction) = 1
          /\ run.result = "Ok" =>
                Reflects(run.matches.source \in {"clone", "mount"})
          /\ run.result = "Err" => run.failed = "re_output"
    /\ (run.matches.sc_name = "source" /\ run.matches.source = "ls") =>
          OutputsAfterAction = {}
    /\ (run.matches.sc_name = "source" /\ run.failed = "action") =>
          OutputsAfterAction = {}

\* C21 witness: source unmount has returned Ok on a disk that held the
\* clone, after an output before it and one after it.
C21_Witness ==
    /\ SourceChanged
    /\ run.matches.source = "unmount"
    /\ run.result = "Ok"
    /\ run.log = <<"from_current_dir", "set_current_target_name", "output",
                   "action", "output">>
    /\ Reflects(FALSE)

====
